---- MODULE Spec2Model ----
(***************************************************************************)
(* A model of the pdf-edit Obsidian plugin variants.                       *)
(*                                                                         *)
(*   - PDFNotesView of src/main.ts (the CodeMirror variant): per-page      *)
(*     notes, the debounced whole-file save, loadPDF and onClose.          *)
(*   - The page-section text functions of src/README.md                    *)
(*     (extractPageNotes / updatePageNotes) and of src/unnamed/part_003    *)
(*     (loadNotes / saveNotes).                                            *)
(*                                                                         *)
(* Text is a sequence of tokens.  A token is a chunk of characters: "\n",  *)
(* " ", the literal "## Page", one digit, or a chunk that holds no         *)
(* white space at its ends and no "## Page" inside.  The regular           *)
(* expressions and the split/trim calls of the source are applied to the   *)
(* tokens exactly as they apply to the characters.  Page numbers are one   *)
(* digit (MaxPages <= 9) and no text holds two digits in a row.            *)
(***************************************************************************)
EXTENDS Integers, Sequences, FiniteSets, Bags, TLC

\* ------------------------------------------------------------------ bounds
MaxPages == 2
MaxEvents == 3
MaxTexts == 1
MaxUpserts == 3

MaxHighlights == 3

MaxRects == 2

MaxFailures == 1

MaxInflight == 2

MaxToggles == 8

\* ------------------------------------------------------------------ text
NL == "\n"
SP == " "
HP == "## Page"
PH == "_No notes for this page_"
KeyPoints == "### Key Points\n- \n\n### Questions\n- \n\n### Summary"
Rule == "---"

DigitTok == <<"1", "2", "3", "4", "5", "6", "7", "8", "9">>
Pages == 1..MaxPages

IsDigit(t) == \E i \in 1..Len(DigitTok) : DigitTok[i] = t
DigitVal(t) == CHOOSE i \in 1..Len(DigitTok) : DigitTok[i] = t
NumTok(n) == IF n = 0 THEN "0" ELSE DigitTok[n]

IsSpace(t) == t \in {SP, NL}

\* String.prototype.trim
Trim(s) ==
  LET keep == {i \in 1..Len(s) : ~IsSpace(s[i])}
      lo == CHOOSE i \in keep : \A j \in keep : i <= j
      hi == CHOOSE i \in keep : \A j \in keep : j <= i
  IN IF keep = {} THEN <<>> ELSE SubSeq(s, lo, hi)

\* A value a Record<number, string> does not hold (undefined).
Undefined == <<"<undefined>">>
Truthy(v) == v # Undefined /\ v # <<>>
OrEmpty(v) == IF Truthy(v) THEN v ELSE <<>>

\* ------------------------------------------------------- src/main.ts text
Pdfs == {"A", "B"}
None == "none"
NumPages(pdf) == IF pdf = "A" THEN MaxPages ELSE 1
NumPagesOr0(pdf) == IF pdf = None THEN 0 ELSE NumPages(pdf)

BaseName(file) == IF file = None THEN "PDF" ELSE file
FileName(file) == IF file = None THEN <<"undefined">> ELSE <<file, ".pdf">>

Preamble(file, n) ==
  <<"#", SP, BaseName(file), SP, "- Notes", NL, NL>>
    \o <<"**PDF:**", SP, "[[">> \o FileName(file) \o <<"]]", NL>>
    \o <<"**Total Pages:**", SP, NumTok(n), NL, NL>>

PageHeaderTok(page) == <<HP, SP, NumTok(page)>>

RECURSIVE TemplateSections(_, _)
TemplateSections(page, n) ==
  IF page > n THEN <<>>
  ELSE PageHeaderTok(page) \o <<NL, NL>>
         \o <<KeyPoints, NL, NL, NL>> \o <<Rule, NL, NL>>
         \o TemplateSections(page + 1, n)

createNotesTemplate(file, pdf) ==
  Preamble(file, NumPagesOr0(pdf)) \o <<Rule, NL, NL>>
    \o TemplateSections(1, NumPagesOr0(pdf))

RECURSIVE PageSections(_, _, _)
PageSections(notes, page, n) ==
  IF page > n THEN <<>>
  ELSE PageHeaderTok(page) \o <<NL, NL>>
         \o (IF Truthy(notes[page]) THEN notes[page] \o <<NL, NL>>
             ELSE <<PH, NL, NL>>)
         \o PageSections(notes, page + 1, n)

\* The text saveAllNotesToFile compiles (fullContent).
FullContent(file, pdf, notes) ==
  Preamble(file, NumPagesOr0(pdf)) \o PageSections(notes, 1, NumPagesOr0(pdf))

\* /^## Page (\d+)$/gm matches at token i.
HeaderMatchAt(s, i) ==
  /\ i + 2 <= Len(s)
  /\ (i = 1 \/ s[i - 1] = NL)
  /\ s[i] = HP /\ s[i + 1] = SP /\ IsDigit(s[i + 2])
  /\ (i + 2 = Len(s) \/ s[i + 3] = NL)

\* parseExistingNotes: the pageNotes it leaves.
parseExistingNotes(content) ==
  LET hs == {i \in 1..Len(content) : HeaderMatchAt(content, i)}
      next(i) == IF \E j \in hs : j > i
                 THEN (CHOOSE j \in hs : j > i /\ \A k \in hs : k > i => j <= k) - 1
                 ELSE Len(content)
      body(i) == Trim(SubSeq(content, i + 3, next(i)))
      kept(p) == {i \in hs : DigitVal(content[i + 2]) = p /\ body(i) # <<PH>>}
      last(p) == CHOOSE i \in kept(p) : \A j \in kept(p) : j <= i
  IN [p \in Pages |-> IF kept(p) = {} THEN Undefined ELSE body(last(p))]

\* ------------------------------------------- src/main.ts: PDFNotesView
VARIABLES
  currentPdfFile,    \* TFile | null: the PDF handed to loadPDF
  currentPdf,        \* the opened PDF document | null
  currentPage,
  currentNotesFile,  \* TFile | null, named by the PDF whose notes file it is
  pageNotes,         \* Record<number, string>
  notesEditor,       \* whether this.notesEditor is an EditorView
  editorDoc,         \* notesEditor.state.doc
  attached,          \* the editor is in the DOM and takes input
  controls,          \* the Previous / Next buttons are in the DOM
  timers,            \* armed timeouts of debouncedSave
  inflight,          \* bag of the vault.modify calls that have not completed
  files,             \* the vault: the notes file of each PDF
  renders,           \* renderPage calls of the click handlers awaiting pdf.js
  loadPc,            \* where loadPDF is suspended
  loadContent,       \* currentPageContent of loadNotesEditor
  closePc,           \* open | saving (onClose awaits its save) | closed
  events,            \* how many user events have happened (bounded)
  burst,             \* history: edits in a row, nothing else having changed the view
  sinceEdit,         \* history: writes started since the last of these edits
  written,           \* history: the content of the last of these writes
  flushed            \* history: onClose took its save branch right after an edit

viewVars ==
  <<currentPdfFile, currentPdf, currentPage, currentNotesFile, pageNotes,
    notesEditor, editorDoc, attached, controls, timers, inflight, files,
    renders, loadPc, loadContent, closePc, events,
    burst, sinceEdit, written, flushed>>

\* The notes document whose page sections the note mapper edits.
VARIABLES
  variant,    \* which plugin variant owns the document: "readme" | "part_003"
  notesDoc,   \* the notes document (Missing: the file does not exist yet)
  lastPage,   \* history: the page of the last upsert, 0 before the first
  lastBody,   \* history: per page, the body upserted last
  upserts     \* how many upserts have happened (bounded)

mapperVars == <<variant, notesDoc, lastPage, lastBody, upserts>>

\* The highlights of the PDF views of src/README.md and src/PUBLISHING.md.
VARIABLES
  highlights,      \* this.highlights: the entries [page, recs] of the Map
  hlPath,          \* this.currentPdfPath: the PDF the view was told to load
  hlShown,         \* the PDF whose pages are on display, None before the first
  hlLoad,          \* loadPdfFromVault: "idle", or "reading" at its awaits
  hlStore,         \* per PDF the file of its highlights, Missing before a save
  hlCount          \* the highlights created so far

highlightVars == <<highlights, hlPath, hlShown, hlLoad, hlStore, hlCount>>

\* The zoom of the PDF views of src/README.md and src/PUBLISHING.md and the
\* rectangles of the highlights made under it.
VARIABLES
  currentScale,    \* this.currentScale, in hundredths
  rects            \* the x stored per highlight, with the selection it was for

zoomVars == <<currentScale, rects>>

\* What becomes of a write of the notes file that is rejected.
VARIABLES
  failedSaves,     \* the rejected writes of scheduled saves so far
  failedCloses,    \* the rejected writes of close-time saves so far
  notices,         \* the error Notices shown to the user so far
  closeRejected    \* the promise of onClose was rejected

failVars == <<failedSaves, failedCloses, notices, closeRejected>>

\* The notes panel of src/PUBLISHING.md: an embedded MarkdownView on the notes
\* file, saved by an interval timer and at close.
VARIABLES
  pubData,         \* markdownView.data, Undefined before the view is there
  pubFile,         \* the notes file
  pubTimer,        \* this.autoSaveTimer is armed
  pubWrites,       \* bag of the writes of the notes file not yet settled
  pubPc            \* "none" | "open" | "saving" (onClose awaits) | "closed"

pubVars == <<pubData, pubFile, pubTimer, pubWrites, pubPc>>

\* The calls of saveNotes (README, part_003) between their read of the notes
\* file and their write.
VARIABLES
  pendingSaves     \* per call: pageNumber, notes and the content it read

saveVars == <<pendingSaves>>

\* History of the page navigation of src/main.ts.
VARIABLES
  requested        \* the page asked for last: by a click, or 1 by loadPDF

\* The visibility settings of src/unnamed/part_003 and src/PUBLISHING.md.
VARIABLES
  showPdf,         \* plugin.settings.showPdf
  showNotes,       \* plugin.settings.showNotes
  savedSettings,   \* <<showPdf, showNotes>> as last handed to saveData
  awaitingSave,    \* handlers that await saveSettings before updateVisibility
  toggles          \* how many clicks have happened (bounded)

settingsVars == <<showPdf, showNotes, savedSettings, awaitingSave, toggles>>

auxVars == <<zoomVars, failVars, pubVars, saveVars, requested, settingsVars>>

settingsFrame ==
  <<viewVars, mapperVars, highlightVars, zoomVars, failVars, pubVars, saveVars,
    requested>>

\* What an action of the view that asks for a page leaves alone.
requestFrame == <<mapperVars, highlightVars, zoomVars, failVars, pubVars, saveVars,
   settingsVars>>

zoomFrame ==
  <<viewVars, mapperVars, highlightVars, failVars, pubVars, saveVars, requested,
    settingsVars>>

failFrame == <<mapperVars, highlightVars, zoomVars, pubVars, saveVars, requested,
   settingsVars>>

pubFrame == <<viewVars, mapperVars, highlightVars, zoomVars, saveVars, requested,
   settingsVars>>

saveFrame == <<viewVars, highlightVars, zoomVars, failVars, pubVars, requested,
   settingsVars>>

Missing == <<"<no file>">>
NoNotes == [p \in Pages |-> Undefined]

\* The text the user can leave in the editor while `file` is shown.
TextTok(file) == IF file = "A" THEN <<"a1", "a2", "a3">> ELSE <<"b1", "b2", "b3">>
EditTexts(file) == {<<TextTok(file)[k]>> : k \in 1..MaxTexts} \cup {<<>>}

Min2(a, b) == IF a < b THEN a ELSE b

\* debouncedSave without its clearTimeout.
debouncedSaveNoClear(t) == t + 1

\* debouncedSave: clearTimeout(timeout); timeout = setTimeout(..., 1000).
debouncedSave(t) == 1

saveCurrentPageNotes(notes, editor, doc, page) ==
  IF editor THEN [notes EXCEPT ![page] = doc] ELSE notes

\* loadNotesForCurrentPage dispatches a change that replaces the whole document;
\* the updateListener runs when the change set is not empty (docChanged).
loadNotesForCurrentPage(notes, editor, doc, page, t) ==
  IF ~editor THEN [notes |-> notes, doc |-> doc, timers |-> t]
  ELSE LET pageContent == OrEmpty(notes[page])
           docChanged == Len(doc) > 0 \/ Len(pageContent) > 0
       IN IF docChanged
          THEN [notes |-> [notes EXCEPT ![page] = pageContent],
                doc |-> pageContent, timers |-> debouncedSave(t)]
          ELSE [notes |-> notes, doc |-> pageContent, timers |-> t]

updateNotesForPage(notes, editor, doc, page, notesFile, t) ==
  IF notesFile = None THEN [notes |-> notes, doc |-> doc, timers |-> t]
  ELSE loadNotesForCurrentPage(saveCurrentPageNotes(notes, editor, doc, page),
                               editor, doc, page, t)

\* The vault.modify call of saveAllNotesToFile.
ModifyCall(file, pdfFile, pdf, notes, by) ==
  [file |-> file, content |-> FullContent(pdfFile, pdf, notes), by |-> by]

ViewInit ==
  /\ currentPdfFile = None /\ currentPdf = None /\ currentPage = 1
  /\ currentNotesFile = None /\ pageNotes = NoNotes
  /\ notesEditor = FALSE /\ editorDoc = <<>> /\ attached = FALSE
  /\ controls = FALSE /\ timers = 0 /\ inflight = EmptyBag
  /\ files = [f \in Pdfs |-> Missing]
  /\ renders = [p \in Pages |-> 0]
  /\ loadPc = "idle" /\ loadContent = <<>>
  /\ closePc = "open" /\ events = 0
  /\ burst = 0 /\ sinceEdit = 0 /\ written = <<>> /\ flushed = FALSE

\* The history variables after a step that is not one of a row of edits.
NoBurst == burst' = 0 /\ sinceEdit' = 0 /\ written' = <<>> /\ flushed' = flushed

\* loadPDF up to its first await (vault.readBinary, pdfjsLib.getDocument).
LoadPDF(file) ==
  /\ closePc = "open" /\ loadPc = "idle" /\ events < MaxEvents
  /\ events' = events + 1
  /\ currentPdfFile' = file
  /\ controls' = FALSE /\ attached' = FALSE
  /\ loadPc' = "open"
  /\ NoBurst
  /\ UNCHANGED <<currentPdf, currentPage, currentNotesFile, pageNotes,
                 notesEditor, editorDoc, timers, inflight, files, renders,
                 loadContent, closePc>>
  /\ UNCHANGED <<mapperVars, highlightVars, auxVars>>

\* The PDF is open: currentPdf, currentPage = 1, createPDFControls, renderPage(1).
LoadOpened ==
  /\ loadPc = "open"
  /\ currentPdf' = currentPdfFile
  /\ currentPage' = 1
  /\ controls' = (closePc = "open")
  /\ loadPc' = "render"
  /\ NoBurst
  /\ UNCHANGED <<currentPdfFile, currentNotesFile, pageNotes, notesEditor,
                 editorDoc, attached, timers, inflight, files, renders,
                 loadContent, closePc, events>>
  /\ requested' = 1
  /\ UNCHANGED requestFrame

\* renderPage(1) is done; createNotesFile up to vault.create or vault.read.
LoadRendered ==
  /\ loadPc = "render"
  /\ currentPage' = 1
  /\ IF files[currentPdfFile] # Missing
     THEN /\ currentNotesFile' = currentPdfFile
          /\ loadPc' = "readNotes"
          /\ files' = files
     ELSE /\ files' = [files EXCEPT ![currentPdfFile] =
                         createNotesTemplate(currentPdfFile, currentPdf)]
          /\ loadPc' = "create"
          /\ currentNotesFile' = currentNotesFile
  /\ NoBurst
  /\ UNCHANGED <<currentPdfFile, currentPdf, pageNotes, notesEditor, editorDoc,
                 attached, controls, timers, inflight, renders, loadContent,
                 closePc, events>>
  /\ UNCHANGED <<mapperVars, highlightVars, auxVars>>

\* vault.create is done; loadNotesEditor up to vault.read.
LoadCreated ==
  /\ loadPc = "create"
  /\ currentNotesFile' = currentPdfFile
  /\ loadPc' = "readNotes"
  /\ NoBurst
  /\ UNCHANGED <<currentPdfFile, currentPdf, currentPage, pageNotes,
                 notesEditor, editorDoc, attached, controls, timers, inflight,
                 files, renders, loadContent, closePc, events>>
  /\ UNCHANGED <<mapperVars, highlightVars, auxVars>>

\* vault.read is done: parseExistingNotes, createMarkdownEditor up to its imports.
LoadNotesRead ==
  /\ loadPc = "readNotes"
  /\ pageNotes' = parseExistingNotes(files[currentNotesFile])
  /\ loadContent' = OrEmpty(pageNotes'[currentPage])
  /\ loadPc' = "imports"
  /\ NoBurst
  /\ UNCHANGED <<currentPdfFile, currentPdf, currentPage, currentNotesFile,
                 notesEditor, editorDoc, attached, controls, timers, inflight,
                 files, renders, closePc, events>>
  /\ UNCHANGED <<mapperVars, highlightVars, auxVars>>

\* The editor is created; updateNotesForPage; loadPDF returns.
LoadEditorCreated ==
  /\ loadPc = "imports"
  /\ LET r == updateNotesForPage(pageNotes, TRUE, loadContent, currentPage,
                                 currentNotesFile, timers)
     IN /\ pageNotes' = r.notes
        /\ editorDoc' = r.doc
        /\ timers' = r.timers
  /\ notesEditor' = TRUE
  /\ attached' = (closePc = "open")
  /\ loadPc' = "idle"
  /\ loadContent' = <<>>
  /\ NoBurst
  /\ UNCHANGED <<currentPdfFile, currentPdf, currentPage, currentNotesFile,
                 controls, inflight, files, renders, closePc, events>>
  /\ UNCHANGED <<mapperVars, highlightVars, auxVars>>

\* The click handlers of prevBtn (d = -1) and nextBtn (d = 1).
Click(d) ==
  /\ closePc = "open" /\ controls /\ events < MaxEvents
  /\ IF d = 1 THEN currentPage < NumPages(currentPdf) ELSE currentPage > 1
  /\ events' = events + 1
  /\ currentPage' = currentPage + d
  /\ renders' = [renders EXCEPT ![currentPage'] = @ + 1]
  /\ LET r == updateNotesForPage(pageNotes, notesEditor, editorDoc,
                                 currentPage', currentNotesFile, timers)
     IN /\ pageNotes' = r.notes
        /\ editorDoc' = r.doc
        /\ timers' = r.timers
  /\ NoBurst
  /\ UNCHANGED <<currentPdfFile, currentPdf, currentNotesFile, notesEditor,
                 attached, controls, inflight, files, loadPc, loadContent,
                 closePc>>
  /\ requested' = currentPage'
  /\ UNCHANGED requestFrame

\* A renderPage call of a click handler completes: this.currentPage = pageNumber.
RenderComplete(p) ==
  /\ renders[p] > 0
  /\ renders' = [renders EXCEPT ![p] = @ - 1]
  /\ currentPage' = p
  /\ IF currentPage = p THEN UNCHANGED <<burst, sinceEdit, written, flushed>>
     ELSE NoBurst
  /\ UNCHANGED <<currentPdfFile, currentPdf, currentNotesFile, pageNotes,
                 notesEditor, editorDoc, attached, controls, timers, inflight,
                 files, loadPc, loadContent, closePc, events>>
  /\ UNCHANGED <<mapperVars, highlightVars, auxVars>>

\* The user changes the editor text: the updateListener of createMarkdownEditor.
Edit(t) ==
  /\ closePc = "open" /\ notesEditor /\ attached /\ events < MaxEvents
  /\ t \in EditTexts(currentPdfFile) /\ t # editorDoc
  /\ events' = events + 1
  /\ editorDoc' = t
  /\ pageNotes' = [pageNotes EXCEPT ![currentPage] = t]
  /\ timers' = debouncedSave(timers)
  /\ burst' = IF burst > 0 /\ sinceEdit = 0 THEN burst + 1 ELSE 1
  /\ sinceEdit' = 0
  /\ written' = <<>>
  /\ UNCHANGED <<currentPdfFile, currentPdf, currentPage, currentNotesFile,
                 notesEditor, attached, controls, inflight, files, renders,
                 loadPc, loadContent, closePc, flushed>>
  /\ UNCHANGED <<mapperVars, highlightVars, auxVars>>

\* A timeout of debouncedSave fires: saveAllNotesToFile up to vault.modify.
TimerFire ==
  /\ timers > 0
  /\ timers' = timers - 1
  /\ IF currentNotesFile = None
     THEN UNCHANGED <<pageNotes, inflight, sinceEdit, written>>
     ELSE LET notes == saveCurrentPageNotes(pageNotes, notesEditor, editorDoc,
                                            currentPage)
              call == ModifyCall(currentNotesFile, currentPdfFile, currentPdf,
                                 notes, "timer")
          IN /\ pageNotes' = notes
             /\ inflight' = inflight (+) SetToBag({call})
             /\ IF burst > 0 \/ flushed
                THEN /\ sinceEdit' = Min2(sinceEdit + 1, 2)
                     /\ written' = call.content
                ELSE UNCHANGED <<sinceEdit, written>>
  /\ UNCHANGED <<currentPdfFile, currentPdf, currentPage, currentNotesFile,
                 notesEditor, editorDoc, attached, controls, files, renders,
                 loadPc, loadContent, closePc, events, burst, flushed>>
  /\ UNCHANGED <<mapperVars, highlightVars, auxVars>>

\* A vault.modify completes; the onClose that awaits it goes on to its cleanup.
WriteComplete(w) ==
  /\ BagIn(w, inflight)
  /\ files' = [files EXCEPT ![w.file] = w.content]
  /\ inflight' = inflight (-) SetToBag({w})
  /\ IF w.by = "close"
     THEN /\ currentPdf' = None /\ notesEditor' = FALSE /\ closePc' = "closed"
     ELSE UNCHANGED <<currentPdf, notesEditor, closePc>>
  /\ UNCHANGED <<currentPdfFile, currentPage, currentNotesFile, pageNotes,
                 editorDoc, attached, controls, timers, renders, loadPc,
                 loadContent, events, burst, sinceEdit, written, flushed>>
  /\ UNCHANGED <<mapperVars, highlightVars, auxVars>>

\* onClose up to the await of saveAllNotesToFile, or to its end.  `auto` is
\* settings.autoSaveOnClose, which the settings tab sets and only onClose reads.
OnClose(auto) ==
  /\ closePc = "open"
  /\ attached' = FALSE /\ controls' = FALSE
  /\ IF auto /\ currentNotesFile # None
     THEN LET notes == saveCurrentPageNotes(pageNotes, notesEditor, editorDoc,
                                            currentPage)
              call == ModifyCall(currentNotesFile, currentPdfFile, currentPdf,
                                 notes, "close")
          IN /\ pageNotes' = notes
             /\ inflight' = inflight (+) SetToBag({call})
             /\ flushed' = (burst > 0 /\ sinceEdit = 0 /\ timers > 0)
             /\ sinceEdit' = IF flushed' THEN 1 ELSE 0
             /\ written' = IF flushed' THEN call.content ELSE <<>>
             /\ closePc' = "saving"
             /\ UNCHANGED <<currentPdf, notesEditor>>
     ELSE /\ currentPdf' = None /\ notesEditor' = FALSE /\ closePc' = "closed"
          /\ sinceEdit' = 0 /\ written' = <<>>
          /\ UNCHANGED <<pageNotes, inflight, flushed>>
  /\ burst' = 0
  /\ UNCHANGED <<currentPdfFile, currentPage, currentNotesFile, editorDoc,
                 timers, files, renders, loadPc, loadContent, events>>
  /\ UNCHANGED <<mapperVars, highlightVars, auxVars>>

ViewNext ==
  \/ \E file \in Pdfs : LoadPDF(file)
  \/ LoadOpened
  \/ LoadRendered
  \/ LoadCreated
  \/ LoadNotesRead
  \/ LoadEditorCreated
  \/ \E d \in {-1, 1} : Click(d)
  \/ \E p \in Pages : RenderComplete(p)
  \/ \E t \in UNION {EditTexts(f) : f \in Pdfs} : Edit(t)
  \/ TimerFire
  \/ \E w \in BagToSet(inflight) : WriteComplete(w)
  \/ \E auto \in BOOLEAN : OnClose(auto)

\* ------------------------------------ page sections of a notes document
\* src/README.md: extractPageNotes / updatePageNotes (lines);
\* src/unnamed/part_003: loadNotes / saveNotes (regular expressions).
SetMin(S) == CHOOSE i \in S : \A j \in S : i <= j

\* String.prototype.split("\n")
RECURSIVE SplitLines(_)
SplitLines(s) ==
  LET nls == {i \in 1..Len(s) : s[i] = NL}
  IN IF nls = {} THEN <<s>>
     ELSE <<SubSeq(s, 1, SetMin(nls) - 1)>>
            \o SplitLines(SubSeq(s, SetMin(nls) + 1, Len(s)))

\* Array.prototype.join("\n")
RECURSIVE JoinLines(_)
JoinLines(ls) ==
  IF ls = <<>> THEN <<>>
  ELSE IF Len(ls) = 1 THEN ls[1]
  ELSE ls[1] \o <<NL>> \o JoinLines(Tail(ls))

\* line.startsWith("## Page")
StartsWithPage(line) == Len(line) >= 1 /\ line[1] = HP

\* lines.findIndex((line) => line.trim() === pageHeader), 1-based, 0 for -1.
PageStart(lines, page) ==
  LET hit == {i \in 1..Len(lines) : Trim(lines[i]) = PageHeaderTok(page)}
  IN IF hit = {} THEN 0 ELSE SetMin(hit)

\* The index of the first line after pageStart that starts with "## Page",
\* or one past the last line.
PageEnd(lines, pageStart) ==
  LET hit == {i \in (pageStart + 1)..Len(lines) : StartsWithPage(lines[i])}
  IN IF hit = {} THEN Len(lines) + 1 ELSE SetMin(hit)

\* src/README.md extractPageNotes
extractPageNotes(content, page) ==
  LET lines == SplitLines(content)
      pageStart == PageStart(lines, page)
  IN IF pageStart = 0 THEN <<>>
     ELSE Trim(JoinLines(SubSeq(lines, pageStart + 1,
                                PageEnd(lines, pageStart) - 1)))

\* src/README.md updatePageNotes
updatePageNotes(content, page, newNotes) ==
  LET lines == SplitLines(content)
      pageStart == PageStart(lines, page)
      pageEnd == PageEnd(lines, pageStart)
  IN IF pageStart = 0
     THEN Trim(content) \o <<NL, NL>> \o PageHeaderTok(page) \o <<NL, NL>>
            \o newNotes
     ELSE JoinLines(SubSeq(lines, 1, pageStart - 1)
                      \o <<PageHeaderTok(page), <<>>, newNotes>>
                      \o SubSeq(lines, pageEnd, Len(lines)))

\* src/README.md initializeNotesFile: the document it creates.
ReadmeInitialContent == <<"# Notes for X", NL, NL, HP, SP, DigitTok[1], NL, NL>>

\* The result of loadNotes when nothing matches (null).
Null == <<"<null>">>

\* `## Page ${pageNumber}\n` matches at token i.
PageHeaderAt(s, i, page) ==
  /\ i + 3 <= Len(s)
  /\ s[i] = HP /\ s[i + 1] = SP /\ s[i + 2] = NumTok(page) /\ s[i + 3] = NL

\* The first match of the header, 0 when there is none.
FirstHeader(s, page) ==
  LET hit == {i \in 1..Len(s) : PageHeaderAt(s, i, page)}
  IN IF hit = {} THEN 0 ELSE SetMin(hit)

\* [\s\S]*?(?=## Page|$) from token j: the last token it takes.
LazyEnd(s, j) ==
  LET hit == {k \in j..Len(s) : s[k] = HP}
  IN IF hit = {} THEN Len(s) ELSE SetMin(hit) - 1

\* src/unnamed/part_003 loadNotes, given the file content.
loadNotes(content, page) ==
  IF content = Missing THEN Null
  ELSE LET i == FirstHeader(content, page)
       IN IF i = 0 THEN Null
          ELSE Trim(SubSeq(content, i + 4, LazyEnd(content, i + 4)))

\* The replacement patterns of String.prototype.replace: "$$" and "$&".
RECURSIVE ExpandReplacement(_, _)
ExpandReplacement(repl, matched) ==
  IF repl = <<>> THEN <<>>
  ELSE (IF Head(repl) = "$$" THEN <<"$">>
        ELSE IF Head(repl) = "$&" THEN matched
        ELSE <<Head(repl)>>) \o ExpandReplacement(Tail(repl), matched)

\* src/unnamed/part_003 saveNotes: the content it writes.
saveNotes(fileContent, page, notes) ==
  LET content == IF fileContent = Missing THEN <<"# PDF Notes", NL, NL>>
                 ELSE fileContent
      newPageContent == PageHeaderTok(page) \o <<NL>> \o notes \o <<NL, NL>>
      i == FirstHeader(content, page)
      e == LazyEnd(content, i + 4)
  IN IF i # 0
     THEN SubSeq(content, 1, i - 1)
            \o ExpandReplacement(Trim(newPageContent), SubSeq(content, i, e))
            \o SubSeq(content, e + 1, Len(content))
     ELSE content \o newPageContent

\* The two variants behind one interface.
Upsert(v, d, page, body) ==
  IF v = "readme" THEN updatePageNotes(d, page, body) ELSE saveNotes(d, page, body)

Extract(v, d, page) ==
  IF v = "readme" THEN extractPageNotes(d, page) ELSE loadNotes(d, page)

\* Whether the variant finds a marker for the page in the document.
HasMarker(v, d, page) ==
  IF v = "readme" THEN PageStart(SplitLines(d), page) # 0
  ELSE d # Missing /\ FirstHeader(d, page) # 0

\* The note bodies handed to the upsert.
Bodies ==
  { <<>>,
    <<"x">>,
    <<"x", NL, NL, "y">>,
    <<SP, "x", NL>>,
    <<"w", NL, HP, SP, DigitTok[MaxPages], NL, "z">>,
    <<"$&">>,
    <<"t", NL, HP, "s", NL, "u">>,
    <<"#", HP, SP, DigitTok[1], NL, "v">>,
    <<SP, HP, SP, DigitTok[MaxPages], NL, "r">> }

\* Bodies of plain text.
PlainBodies == {<<>>, <<"x">>, <<"y">>, <<"x", NL, NL, "y">>}

\* src/PUBLISHING.md createOrLoadNotesFile: the document it creates.
PublishingInitialContent ==
  <<"---", NL, "pdf-file: \"X.pdf\"", NL, "type: pdf-notes", NL,
    "created: T", NL, "last-modified: T", NL, "---", NL, NL,
    "# PDF Notes", NL, NL>>

\* settings.defaultNoteTemplate with "{page}" replaced.  The literal is
\* double-quoted with "\\n", so it holds backslash-n pairs, no line breaks.
DefaultNoteTemplate(page) ==
  <<HP, SP, NumTok(page),
    "\\n\\n### Key Points\\n- \\n\\n### Questions\\n- \\n\\n### Summary\\n">>

\* content.includes(`## Page ${pageNumber}`)
IncludesHeader(content, page) ==
  \E i \in 1..(Len(content) - 2) :
    content[i] = HP /\ content[i + 1] = SP /\ content[i + 2] = NumTok(page)

\* src/PUBLISHING.md ensurePageSection: the content of the file after it.
ensurePageSection(content, page) ==
  IF IncludesHeader(content, page) THEN content
  ELSE content \o <<NL, NL>> \o DefaultNoteTemplate(page) \o <<NL>>

MapperInit ==
  /\ variant \in {"readme", "part_003", "publishing"}
  /\ notesDoc = IF variant = "readme" THEN ReadmeInitialContent
                ELSE IF variant = "publishing" THEN PublishingInitialContent
                ELSE Missing
  /\ lastPage = 0
  /\ lastBody = [p \in Pages |-> Undefined]
  /\ upserts = 0

\* saveNotes(pageNumber, notes) of either variant on its notes file.
SaveNotes(page, body) ==
  /\ variant # "publishing"
  /\ upserts < MaxUpserts
  /\ upserts' = upserts + 1
  /\ notesDoc' = Upsert(variant, notesDoc, page, body)
  /\ lastPage' = page
  /\ lastBody' = [lastBody EXCEPT ![page] = body]
  /\ UNCHANGED <<variant, viewVars, highlightVars, auxVars>>

\* The "Go to Page" / "Open Note in Tab" buttons of src/PUBLISHING.md, whose
\* saveNotes has no caller: ensurePageSection(pageNumber).
EnsurePageSection(page) ==
  /\ variant = "publishing"
  /\ upserts < MaxUpserts
  /\ upserts' = upserts + 1
  /\ notesDoc' = ensurePageSection(notesDoc, page)
  /\ lastPage' = page
  /\ UNCHANGED <<variant, lastBody, viewVars, highlightVars, auxVars>>

\* saveNotes(pageNumber, notes) as the function stands, for any page number
\* a caller may hand it: neither variant tests pageNumber.
SaveNotesAnyPage(page, body) ==
  /\ variant \in {"readme", "part_003"}
  /\ upserts < MaxUpserts
  /\ upserts' = upserts + 1
  /\ notesDoc' = Upsert(variant, notesDoc, page, body)
  /\ lastPage' = page
  /\ lastBody' = IF page \in Pages THEN [lastBody EXCEPT ![page] = body]
                 ELSE lastBody
  /\ UNCHANGED <<variant, viewVars, highlightVars, auxVars>>

MapperNext ==
  \/ \E page \in Pages, body \in Bodies : SaveNotes(page, body)
  \/ \E page \in Pages : EnsurePageSection(page)

\* ------------------------------------------------------------ highlights
\* src/README.md (saveHighlights / loadHighlights, a JSON file beside the PDF)
\* and src/PUBLISHING.md (saveHighlightsToNotes / loadHighlightsFromNotes, a
\* block of the notes file).  this.highlights, a Map<number, PdfHighlight[]>,
\* is the sequence of its entries [page, recs] in insertion order; of a
\* PdfHighlight the model keeps id and text.

\* The ids handed out (crypto.randomUUID, Date.now + Math.random): fresh
\* names, which here also tell the PDF whose page was selected.
HighlightIds ==
  [f \in Pdfs |-> IF f = "A" THEN <<"A1", "A2", "A3", "A4", "A5">>
                  ELSE <<"B1", "B2", "B3", "B4", "B5">>]

\* The texts a selection can hold.
SelectedTexts == {"ab", "$$"}

\* Array.prototype.join(",") of pieces of JSON text.
RECURSIVE JoinComma(_)
JoinComma(parts) ==
  IF parts = <<>> THEN <<>>
  ELSE IF Len(parts) = 1 THEN parts[1]
  ELSE parts[1] \o <<",">> \o JoinComma(Tail(parts))

\* JSON.stringify of one PdfHighlight, one Map entry, and Array.from(entries).
HighlightJson(h) == <<"{", h.id, ":", "\"", h.text, "\"", "}">>

EntryJson(e) ==
  <<"[", DigitTok[e.page], ",", "[">>
    \o JoinComma([i \in 1..Len(e.recs) |-> HighlightJson(e.recs[i])])
    \o <<"]", "]">>

JSONstringify(m) ==
  <<"[">> \o JoinComma([i \in 1..Len(m) |-> EntryJson(m[i])]) \o <<"]">>

\* JSON.parse: the token at i, or a token no JSON text holds.
At(s, i) == IF i >= 1 /\ i <= Len(s) THEN s[i] ELSE "<eof>"

\* A parse result: the value read and the index after it; ok = FALSE for a
\* SyntaxError.
Failed == [ok |-> FALSE, val |-> <<>>, next |-> 0]

ParseHighlight(s, i) ==
  IF /\ At(s, i) = "{" /\ At(s, i + 2) = ":" /\ At(s, i + 3) = "\""
     /\ At(s, i + 5) = "\"" /\ At(s, i + 6) = "}"
     /\ At(s, i + 1) \notin {"<eof>", "\"", "{", "}", "[", "]", ",", ":"}
     /\ At(s, i + 4) \notin {"<eof>", "\""}
  THEN [ok |-> TRUE, val |-> [id |-> s[i + 1], text |-> s[i + 4]], next |-> i + 7]
  ELSE Failed

\* The elements of an array after its "[": value ("," value)* "]" or "]".
RECURSIVE ParseHighlights(_, _, _)
ParseHighlights(s, i, first) ==
  IF first /\ At(s, i) = "]" THEN [ok |-> TRUE, val |-> <<>>, next |-> i + 1]
  ELSE LET h == ParseHighlight(s, i)
       IN IF ~h.ok THEN Failed
          ELSE IF At(s, h.next) = "]"
          THEN [ok |-> TRUE, val |-> <<h.val>>, next |-> h.next + 1]
          ELSE IF At(s, h.next) = ","
          THEN LET r == ParseHighlights(s, h.next + 1, FALSE)
               IN IF r.ok THEN [r EXCEPT !.val = <<h.val>> \o r.val] ELSE Failed
          ELSE Failed

ParseEntry(s, i) ==
  IF At(s, i) = "[" /\ IsDigit(At(s, i + 1)) /\ At(s, i + 2) = ","
     /\ At(s, i + 3) = "["
  THEN LET r == ParseHighlights(s, i + 4, TRUE)
       IN IF r.ok /\ At(s, r.next) = "]"
          THEN [ok |-> TRUE,
                val |-> [page |-> DigitVal(s[i + 1]), recs |-> r.val],
                next |-> r.next + 1]
          ELSE Failed
  ELSE Failed

RECURSIVE ParseEntries(_, _, _)
ParseEntries(s, i, first) ==
  IF first /\ At(s, i) = "]" THEN [ok |-> TRUE, val |-> <<>>, next |-> i + 1]
  ELSE LET e == ParseEntry(s, i)
       IN IF ~e.ok THEN Failed
          ELSE IF At(s, e.next) = "]"
          THEN [ok |-> TRUE, val |-> <<e.val>>, next |-> e.next + 1]
          ELSE IF At(s, e.next) = ","
          THEN LET r == ParseEntries(s, e.next + 1, FALSE)
               IN IF r.ok THEN [r EXCEPT !.val = <<e.val>> \o r.val] ELSE Failed
          ELSE Failed

\* new Map(JSON.parse(text)) inside a try whose catch leaves new Map(): the
\* entries of the Map built.  A SyntaxError of JSON.parse and the TypeError of
\* new Map for a value that is no list of pairs ("{}", "[1]") both end in the
\* catch; new Map(null) is the empty Map.  A later entry of a page replaces the
\* value of the earlier one, in the earlier one's place.
RECURSIVE NewMap(_)
NewMap(entries) ==
  IF entries = <<>> THEN <<>>
  ELSE LET front == NewMap(SubSeq(entries, 1, Len(entries) - 1))
           e == entries[Len(entries)]
       IN IF \E i \in 1..Len(front) : front[i].page = e.page
          THEN [i \in 1..Len(front) |->
                  IF front[i].page = e.page THEN e ELSE front[i]]
          ELSE Append(front, e)

MapOfJson(text) ==
  LET r == IF At(text, 1) = "[" THEN ParseEntries(text, 2, TRUE) ELSE Failed
  IN IF r.ok /\ r.next = Len(text) + 1 THEN NewMap(r.val) ELSE <<>>

\* src/README.md loadHighlights: this.highlights after it, given the file.
loadHighlights(file) == IF file = Missing THEN <<>> ELSE MapOfJson(file)

\* src/README.md saveHighlights: the text it writes.
saveHighlights(m) == JSONstringify(m)

\* src/PUBLISHING.md: the two markers of the block kept in the notes file.
highlightMarker == "<!-- PDF_HIGHLIGHTS_DATA"

endMarker == "END_PDF_HIGHLIGHTS -->"

Includes(s, tok) == \E i \in 1..Len(s) : s[i] = tok

\* The first index >= i of tok in s, 0 when there is none.
IndexFrom(s, tok, i) ==
  IF \E k \in i..Len(s) : s[k] = tok
  THEN SetMin({k \in i..Len(s) : s[k] = tok})
  ELSE 0

\* content.replace(new RegExp(highlightMarker + "[\s\S]*?" + endMarker, "g"),
\* repl) with a string for repl: every match, from a marker to the first end
\* marker after it, gives way to the expansion of repl.
RECURSIVE ReplaceBlocks(_, _)
ReplaceBlocks(content, repl) ==
  LET i == IndexFrom(content, highlightMarker, 1)
      j == IF i = 0 THEN 0 ELSE IndexFrom(content, endMarker, i + 1)
  IN IF i = 0 \/ j = 0 THEN content
     ELSE SubSeq(content, 1, i - 1)
            \o ExpandReplacement(repl, SubSeq(content, i, j))
            \o ReplaceBlocks(SubSeq(content, j + 1, Len(content)), repl)

\* src/PUBLISHING.md saveHighlightsToNotes: the notes file it writes.
saveHighlightsToNotes(content, m) ==
  LET highlightsData == JSONstringify(m)
      block == <<highlightMarker, NL>> \o highlightsData \o <<NL, endMarker>>
  IN IF Includes(content, highlightMarker)
     THEN ReplaceBlocks(content, block)
     ELSE content \o <<NL, NL>> \o block

\* The match of highlightMarker + "\n([\s\S]*?)\n" + endMarker: the leftmost
\* start, then the nearest end; <<0, 0>> when nothing matches.
BlockMatch(content) ==
  LET ends(i) == {j \in (i + 2)..(Len(content) - 1) :
                    content[j] = NL /\ content[j + 1] = endMarker}
      starts == {i \in 1..Len(content) :
                   /\ content[i] = highlightMarker
                   /\ At(content, i + 1) = NL
                   /\ ends(i) # {}}
  IN IF starts = {} THEN <<0, 0>>
     ELSE LET i == SetMin(starts) IN <<i, SetMin(ends(i))>>

\* src/PUBLISHING.md loadHighlightsFromNotes: this.highlights after it, given
\* the notes file read and this.highlights before.  Without the marker,
\* without a match or with an empty capture nothing is assigned; a failed
\* read (the outer catch) and a failed parse (the inner one) leave new Map().
loadHighlightsFromNotes(content, before) ==
  IF content = Missing THEN <<>>
  ELSE IF ~Includes(content, highlightMarker) THEN before
  ELSE LET m == BlockMatch(content)
           captured == SubSeq(content, m[1] + 2, m[2] - 1)
       IN IF m[1] = 0 \/ captured = <<>> THEN before
          ELSE MapOfJson(captured)

\* The highlights part before any PDF is loaded.
HighlightIdle ==
  /\ highlights = <<>>
  /\ hlPath = None
  /\ hlShown = None
  /\ hlLoad = "idle"
  /\ hlStore = [f \in Pdfs |-> Missing]
  /\ hlCount = 0

\* The pages of the PDF on display.
ShownPages == IF hlShown = None THEN {} ELSE 1..NumPages(hlShown)

\* Map.prototype.get / has over the entries.
EntryIndex(m, page) ==
  IF \E i \in 1..Len(m) : m[i].page = page
  THEN CHOOSE i \in 1..Len(m) : m[i].page = page
  ELSE 0

\* highlights.set(page, []) when the page has no entry, then push(h).
PushHighlight(m, page, h) ==
  LET withKey == IF EntryIndex(m, page) = 0
                 THEN Append(m, [page |-> page, recs |-> <<>>])
                 ELSE m
      i == EntryIndex(withKey, page)
  IN [withKey EXCEPT ![i].recs = Append(@, h)]

RemoveAt(seq, i) == SubSeq(seq, 1, i - 1) \o SubSeq(seq, i + 1, Len(seq))

\* src/README.md deleteHighlight: findIndex by id in the list of the page,
\* splice; the entry of the page stays.
deleteHighlightReadme(m, page, id) ==
  LET i == EntryIndex(m, page)
      k == CHOOSE k \in 1..Len(m[i].recs) : m[i].recs[k].id = id
  IN [m EXCEPT ![i].recs = RemoveAt(@, k)]

\* src/PUBLISHING.md deleteHighlight: the first page holding the id loses the
\* record, and its entry when the list is left empty.
deleteHighlightPublishing(m, id) ==
  LET i == SetMin({i \in 1..Len(m) :
                     \E k \in 1..Len(m[i].recs) : m[i].recs[k].id = id})
      k == CHOOSE k \in 1..Len(m[i].recs) : m[i].recs[k].id = id
      rest == RemoveAt(m[i].recs, k)
  IN IF rest = <<>> THEN RemoveAt(m, i) ELSE [m EXCEPT ![i].recs = rest]

\* The file of the highlights of hlPath after a save of m: the JSON file
\* beside the PDF (README) or the notes file with its block (PUBLISHING).
SavedStore(m) ==
  IF variant = "readme"
  THEN [hlStore EXCEPT ![hlPath] = saveHighlights(m)]
  ELSE [hlStore EXCEPT ![hlPath] = saveHighlightsToNotes(hlStore[hlPath], m)]

\* loadPdfFromVault(file).  README: currentPdfPath is set and the method
\* waits for readBinary; the pages of the PDF before stay on display.
\* PUBLISHING: the PDF is displayed and the notes panel creates the notes file
\* when there is none; this.highlights is not touched.
LoadPdfFromVault(file) ==
  /\ variant \in {"readme", "publishing"}
  /\ hlLoad = "idle"
  /\ hlPath' = file
  /\ IF variant = "readme"
     THEN /\ hlLoad' = "reading"
          /\ UNCHANGED <<hlShown, hlStore>>
     ELSE /\ hlShown' = file
          /\ hlStore' = IF hlStore[file] = Missing
                        THEN [hlStore EXCEPT ![file] = PublishingInitialContent]
                        ELSE hlStore
          /\ UNCHANGED hlLoad
  /\ UNCHANGED <<highlights, hlCount, viewVars, mapperVars, auxVars>>

\* README loadPdfFromVault after its awaits: loadHighlights has read the file
\* of currentPdfPath and loadPdf displays the PDF.
LoadHighlights ==
  /\ variant = "readme"
  /\ hlLoad = "reading"
  /\ highlights' = loadHighlights(hlStore[hlPath])
  /\ hlShown' = hlPath
  /\ hlLoad' = "idle"
  /\ UNCHANGED <<hlPath, hlStore, hlCount, viewVars, mapperVars, auxVars>>

\* handleTextSelection (README) / the mouseup handler of
\* setupTextSelectionHandling (PUBLISHING): a selection of text on a page on
\* display becomes a highlight of that page number, and the Map is saved.
HandleTextSelection(page, text) ==
  /\ variant \in {"readme", "publishing"}
  /\ hlShown # None
  /\ page \in ShownPages
  /\ hlCount < MaxHighlights
  /\ hlCount' = hlCount + 1
  /\ LET h == [id |-> HighlightIds[hlShown][hlCount + 1], text |-> text]
     IN /\ highlights' = PushHighlight(highlights, page, h)
        /\ hlStore' = SavedStore(highlights')
  /\ UNCHANGED <<hlPath, hlShown, hlLoad, viewVars, mapperVars, auxVars>>

\* deleteHighlight(id) of a highlight drawn on the page on display.
DeleteHighlight(page, id) ==
  /\ variant \in {"readme", "publishing"}
  /\ hlShown # None
  /\ page \in ShownPages
  /\ EntryIndex(highlights, page) # 0
  /\ \E k \in 1..Len(highlights[EntryIndex(highlights, page)].recs) :
        highlights[EntryIndex(highlights, page)].recs[k].id = id
  /\ highlights' = IF variant = "readme"
                   THEN deleteHighlightReadme(highlights, page, id)
                   ELSE deleteHighlightPublishing(highlights, id)
  /\ hlStore' = SavedStore(highlights')
  /\ UNCHANGED <<hlPath, hlShown, hlLoad, hlCount, viewVars, mapperVars, auxVars>>

AllHighlightIds == {HighlightIds[f][n] : f \in Pdfs, n \in 1..MaxHighlights}

HighlightsNext ==
  \/ \E file \in Pdfs : LoadPdfFromVault(file)
  \/ LoadHighlights
  \/ \E page \in Pages, text \in SelectedTexts : HandleTextSelection(page, text)
  \/ \E page \in Pages, id \in AllHighlightIds : DeleteHighlight(page, id)

\* ------------------------------------------------------------------ zoom
\* Lengths are integers and scales are hundredths; the selections offered
\* make every quotient below exact.

\* currentScale: number = 1.5 (README 286, PUBLISHING 274).
DefaultScale == 150

MinScale == 50

MaxScale == 300

\* The zoom step: 0.25 in README (995, 1001), 0.2 in PUBLISHING (975, 992).
ZoomStep == IF variant = "readme" THEN 25 ELSE 20

\* Where a piece of text lies on the page at scale 1.0, left edge.
Selections == {100, 200}

\* rect.left - containerRect.left of a selection on a page rendered with
\* page.getViewport({scale: currentScale}).
OnScreen(sel, scale) == (sel * scale) \div 100

\* The x stored for a selection: README divides the on-screen value by
\* this.currentScale, PUBLISHING stores the on-screen value.
StoredX(sel, scale) ==
  IF variant = "readme" THEN (OnScreen(sel, scale) * 100) \div scale
  ELSE OnScreen(sel, scale)

\* style.left of the element drawn for a highlight: README renderHighlights
\* multiplies by this.currentScale, PUBLISHING renderHighlight does not.
DrawnLeft(x, scale) ==
  IF variant = "readme" THEN (x * scale) \div 100 ELSE x

ZoomIdle == currentScale = DefaultScale /\ rects = <<>>

FailIdle ==
  /\ failedSaves = 0 /\ failedCloses = 0 /\ notices = 0
  /\ closeRejected = FALSE

PubIdle ==
  /\ pubData = Undefined
  /\ pubFile = PublishingInitialContent
  /\ pubTimer = FALSE
  /\ pubWrites = EmptyBag
  /\ pubPc = "none"

SaveIdle == pendingSaves = {}

\* DEFAULT_SETTINGS: showNotes: true, showPdf: true.
SettingsIdle ==
  /\ showPdf = TRUE /\ showNotes = TRUE
  /\ savedSettings = <<TRUE, TRUE>>
  /\ awaitingSave = 0 /\ toggles = 0

AuxIdle ==
  ZoomIdle /\ FailIdle /\ PubIdle /\ SaveIdle /\ requested = 1 /\ SettingsIdle

ZoomIn ==
  /\ variant \in {"readme", "publishing"}
  /\ currentScale' = Min2(currentScale + ZoomStep, MaxScale)
  /\ UNCHANGED <<rects, zoomFrame>>

ZoomOut ==
  /\ variant \in {"readme", "publishing"}
  /\ currentScale' = IF currentScale - ZoomStep < MinScale THEN MinScale
                     ELSE currentScale - ZoomStep
  /\ UNCHANGED <<rects, zoomFrame>>

\* The reset button of README (1007).
ZoomReset ==
  /\ variant = "readme"
  /\ currentScale' = DefaultScale
  /\ UNCHANGED <<rects, zoomFrame>>

\* A selection of the text at sel on the page as rendered now.
SelectRect(sel) ==
  /\ variant \in {"readme", "publishing"}
  /\ Len(rects) < MaxRects
  /\ rects' = Append(rects, [x |-> StoredX(sel, currentScale), sel |-> sel])
  /\ UNCHANGED <<currentScale, zoomFrame>>

ZoomNext ==
  \/ ZoomIn
  \/ ZoomOut
  \/ ZoomReset
  \/ \E sel \in Selections : SelectRect(sel)

\* -------------------------------------------------------- rejected writes
\* src/main.ts: a vault.modify of saveAllNotesToFile rejects.  The file stays
\* as it is.  In the callback of debouncedSave the rejection ends an async
\* arrow function nobody awaits: nothing is caught and nothing is shown.  In
\* onClose the await throws, so onClose ends there, rejected, before its
\* cleanup.
WriteFail(w) ==
  /\ BagIn(w, inflight)
  /\ failedSaves + failedCloses < MaxFailures
  /\ inflight' = inflight (-) SetToBag({w})
  /\ IF w.by = "close"
     THEN /\ closePc' = "closed"
          /\ closeRejected' = TRUE
          /\ failedCloses' = failedCloses + 1
          /\ UNCHANGED failedSaves
     ELSE /\ failedSaves' = failedSaves + 1
          /\ UNCHANGED <<closePc, closeRejected, failedCloses>>
  /\ UNCHANGED <<currentPdfFile, currentPdf, currentPage, currentNotesFile,
                 pageNotes, notesEditor, editorDoc, attached, controls, timers,
                 files, renders, loadPc, loadContent, events, burst, sinceEdit,
                 written, flushed>>
  /\ UNCHANGED <<notices, failFrame>>

\* ------------------------------------------- the notes panel of PUBLISHING
\* What the user can leave in the embedded editor.
PubTexts ==
  {PublishingInitialContent \o t : t \in {<<>>, <<"x">>, <<"x", NL, "y">>}}

\* createNoteEditor: the embedded leaf opens the notes file and setupAutoSave
\* arms the interval timer (settings.autoSaveInterval > 0).
CreateNoteEditor ==
  /\ pubPc = "none"
  /\ pubPc' = "open"
  /\ pubData' = pubFile
  /\ pubTimer' = TRUE
  /\ UNCHANGED <<pubFile, pubWrites, failVars, pubFrame>>

\* The user types in the embedded editor.
PubEdit(t) ==
  /\ pubPc = "open"
  /\ t # pubData
  /\ pubData' = t
  /\ UNCHANGED <<pubFile, pubTimer, pubWrites, pubPc, failVars, pubFrame>>

\* A tick of the interval of setupAutoSave, up to its vault.modify.
AutoSaveTick ==
  /\ pubTimer
  /\ pubData # Undefined
  /\ BagCardinality(pubWrites) < MaxInflight
  /\ pubWrites' = pubWrites (+) SetToBag({[content |-> pubData, by |-> "auto"]})
  /\ UNCHANGED <<pubData, pubFile, pubTimer, pubPc, failVars, pubFrame>>

\* onClose up to the await in saveCurrentNotes: the note container holds no
\* textarea, the embedded leaf is a markdown leaf on the notes file, so
\* view.save() writes its data.
PubOnClose ==
  /\ pubPc = "open"
  /\ pubPc' = "saving"
  /\ pubWrites' = pubWrites (+) SetToBag({[content |-> pubData, by |-> "close"]})
  /\ UNCHANGED <<pubData, pubFile, pubTimer, failVars, pubFrame>>

\* A write of the notes file settles.  ok: the file holds the content.
\* Rejected: the catch of the tick or of saveCurrentNotes calls console.error
\* and nothing else.  Either way the onClose that awaited it goes on:
\* clearInterval, and its promise resolves.
PubWriteSettled(w, ok) ==
  /\ BagIn(w, pubWrites)
  /\ ok \/ failedSaves + failedCloses < MaxFailures
  /\ pubWrites' = pubWrites (-) SetToBag({w})
  /\ pubFile' = IF ok THEN w.content ELSE pubFile
  /\ IF w.by = "close"
     THEN pubPc' = "closed" /\ pubTimer' = FALSE
     ELSE UNCHANGED <<pubPc, pubTimer>>
  /\ failedSaves' = IF ~ok /\ w.by = "auto" THEN failedSaves + 1 ELSE failedSaves
  /\ failedCloses' = IF ~ok /\ w.by = "close" THEN failedCloses + 1
                     ELSE failedCloses
  /\ UNCHANGED <<pubData, notices, closeRejected, pubFrame>>

PubNext ==
  \/ CreateNoteEditor
  \/ \E t \in PubTexts : PubEdit(t)
  \/ AutoSaveTick
  \/ PubOnClose
  \/ \E w \in BagToSet(pubWrites), ok \in BOOLEAN : PubWriteSettled(w, ok)

\* ------------------------------------------------ saveNotes, step by step
\* Bodies of plain text that are not empty.
NoteTexts == {<<"x">>, <<"y">>}

\* saveNotes(pageNumber, notes) of the blur handler up to the end of its
\* read: the call holds the content the file had then.
SaveNotesRead(page, body) ==
  /\ variant \in {"readme", "part_003"}
  /\ upserts < MaxUpserts
  /\ upserts' = upserts + 1
  /\ pendingSaves' = pendingSaves \cup
                       {[page |-> page, body |-> body, content |-> notesDoc]}
  /\ lastPage' = page
  /\ lastBody' = [lastBody EXCEPT ![page] = body]
  /\ UNCHANGED <<variant, notesDoc, saveFrame>>

\* The rest of the call: the section is put into the content read and the
\* result is written.
SaveNotesWrite(call) ==
  /\ call \in pendingSaves
  /\ pendingSaves' = pendingSaves \ {call}
  /\ notesDoc' = Upsert(variant, call.content, call.page, call.body)
  /\ UNCHANGED <<variant, lastPage, lastBody, upserts, saveFrame>>

SaveStepsNext ==
  \/ \E page \in Pages, body \in NoteTexts : SaveNotesRead(page, body)
  \/ \E call \in pendingSaves : SaveNotesWrite(call)

\* ------------------------------------------------------------ visibility
\* togglePdfBtn.onclick up to its await of saveSettings.  The guard tests
\* whether both sections are hidden already.
TogglePdf ==
  /\ variant \in {"part_003", "publishing"}
  /\ toggles < MaxToggles /\ awaitingSave < MaxInflight
  /\ toggles' = toggles + 1
  /\ IF ~showPdf /\ ~showNotes
     THEN UNCHANGED <<showPdf, savedSettings, awaitingSave>>
     ELSE /\ showPdf' = ~showPdf
          /\ savedSettings' = <<showPdf', showNotes>>
          /\ awaitingSave' = awaitingSave + 1
  /\ UNCHANGED <<showNotes, settingsFrame>>

\* toggleNotesBtn.onclick up to its await of saveSettings.
ToggleNotes ==
  /\ variant \in {"part_003", "publishing"}
  /\ toggles < MaxToggles /\ awaitingSave < MaxInflight
  /\ toggles' = toggles + 1
  /\ IF ~showNotes /\ ~showPdf
     THEN UNCHANGED <<showNotes, savedSettings, awaitingSave>>
     ELSE /\ showNotes' = ~showNotes
          /\ savedSettings' = <<showPdf, showNotes'>>
          /\ awaitingSave' = awaitingSave + 1
  /\ UNCHANGED <<showPdf, settingsFrame>>

\* A toggle of the settings tab ("Show PDF by Default", "Show Notes by
\* Default") up to its await of saveSettings.
SettingsTabToggle(pdf) ==
  /\ variant \in {"part_003", "publishing"}
  /\ toggles < MaxToggles /\ awaitingSave < MaxInflight
  /\ toggles' = toggles + 1
  /\ IF pdf THEN showPdf' = ~showPdf /\ UNCHANGED showNotes
     ELSE showNotes' = ~showNotes /\ UNCHANGED showPdf
  /\ savedSettings' = <<showPdf', showNotes'>>
  /\ awaitingSave' = awaitingSave + 1
  /\ UNCHANGED settingsFrame

\* saveSettings is done and the handler calls updateVisibility, which shows
\* both sections when both are hidden and saves the settings again.
UpdateVisibility ==
  /\ awaitingSave > 0
  /\ awaitingSave' = awaitingSave - 1
  /\ IF ~showPdf /\ ~showNotes
     THEN /\ showPdf' = TRUE /\ showNotes' = TRUE
          /\ savedSettings' = <<TRUE, TRUE>>
     ELSE UNCHANGED <<showPdf, showNotes, savedSettings>>
  /\ UNCHANGED <<toggles, settingsFrame>>

SettingsNext ==
  \/ TogglePdf
  \/ ToggleNotes
  \/ \E pdf \in BOOLEAN : SettingsTabToggle(pdf)
  \/ UpdateVisibility

\* ---------------------------------------------------------- specifications
vars == <<viewVars, mapperVars, highlightVars, auxVars>>

Init == ViewInit /\ variant = "readme" /\ notesDoc = Missing /\ lastPage = 0
          /\ lastBody = [p \in Pages |-> Undefined] /\ upserts = 0
  /\ HighlightIdle
  /\ AuxIdle

Next == ViewNext

Spec == Init /\ [][Next]_vars

InitMapper == ViewInit /\ MapperInit /\ HighlightIdle /\ AuxIdle

NextMapper == MapperNext

SpecMapper == InitMapper /\ [][NextMapper]_vars

\* src/main.ts across sessions: loadNotesEditor parses the notes file into
\* pageNotes, the user leaves `body` in the editor of `page`, and
\* saveAllNotesToFile compiles pageNotes into the file again.
ReloadEditSave(page, body) ==
  /\ variant = "main"
  /\ upserts < MaxUpserts
  /\ upserts' = upserts + 1
  /\ notesDoc' = FullContent("A", "A",
                    [parseExistingNotes(notesDoc) EXCEPT ![page] = body])
  /\ lastPage' = page
  /\ lastBody' = [lastBody EXCEPT ![page] = body]
  /\ UNCHANGED <<variant, viewVars, highlightVars, auxVars>>

InitReload ==
  /\ ViewInit
  /\ variant = "main"
  /\ notesDoc = createNotesTemplate("A", "A")
  /\ lastPage = 0
  /\ lastBody = [p \in Pages |-> Undefined]
  /\ upserts = 0
  /\ HighlightIdle
  /\ AuxIdle

NextReload == \E page \in Pages, body \in Bodies : ReloadEditSave(page, body)

SpecReload == InitReload /\ [][NextReload]_vars

InitHighlights ==
  /\ ViewInit
  /\ variant \in {"readme", "publishing"}
  /\ notesDoc = Missing
  /\ lastPage = 0
  /\ lastBody = [p \in Pages |-> Undefined]
  /\ upserts = 0
  /\ HighlightIdle
  /\ AuxIdle

NextHighlights == HighlightsNext

SpecHighlights == InitHighlights /\ [][NextHighlights]_vars

InitFail == Init

NextFail ==
  \/ ViewNext
  \/ \E w \in BagToSet(inflight) : WriteFail(w)

SpecFail == InitFail /\ [][NextFail]_vars

InitPub ==
  /\ ViewInit
  /\ variant = "publishing"
  /\ notesDoc = Missing
  /\ lastPage = 0
  /\ lastBody = [p \in Pages |-> Undefined]
  /\ upserts = 0
  /\ HighlightIdle
  /\ AuxIdle

NextPub == PubNext

SpecPub == InitPub /\ [][NextPub]_vars

InitPageArg ==
  /\ ViewInit
  /\ variant \in {"readme", "part_003"}
  /\ notesDoc = IF variant = "readme" THEN ReadmeInitialContent ELSE Missing
  /\ lastPage = 0
  /\ lastBody = [p \in Pages |-> Undefined]
  /\ upserts = 0
  /\ HighlightIdle
  /\ AuxIdle

NextPageArg ==
  \E page \in 0..MaxPages, body \in PlainBodies : SaveNotesAnyPage(page, body)

SpecPageArg == InitPageArg /\ [][NextPageArg]_vars

InitSaveSteps == InitPageArg

NextSaveSteps == SaveStepsNext

SpecSaveSteps == InitSaveSteps /\ [][NextSaveSteps]_vars

InitSettings ==
  /\ ViewInit
  /\ variant \in {"part_003", "publishing"}
  /\ notesDoc = Missing
  /\ lastPage = 0
  /\ lastBody = [p \in Pages |-> Undefined]
  /\ upserts = 0
  /\ HighlightIdle
  /\ AuxIdle

NextSettings == SettingsNext

SpecSettings == InitSettings /\ [][NextSettings]_vars

InitZoom == InitHighlights

NextZoom == ZoomNext

SpecZoom == InitZoom /\ [][NextZoom]_vars

\* ------------------------------------------------ claims on PDFNotesView
\* A Previous / Next click in the settled view (no loadPDF under way).
IsSettledClick ==
  /\ loadPc = "idle" /\ notesEditor /\ attached
  /\ \E p \in Pages : renders'[p] = renders[p] + 1

\* C1: a Previous / Next click from page p to page q leaves every stored page
\* note as it was and leaves the editor showing the note stored for q.
C1_PageSwitchKeepsNotes ==
  [][IsSettledClick =>
       /\ pageNotes' = pageNotes
       /\ editorDoc' = OrEmpty(pageNotes[currentPage'])]_vars

\* C2: an edit followed by onClose (auto-save on) before the timeout fires
\* results in exactly one write of the notes file once the close has completed.
C2_CloseWritesOnce ==
  (flushed /\ closePc = "closed") => sinceEdit = 1

\* The edit texts of the PDFs other than `file`.
ForeignTok(file) ==
  {TextTok(g)[k] : g \in Pdfs \ {file}, k \in 1..Len(TextTok(file))}

\* C3: no write stores notes text of one PDF in the notes file of another PDF.
C3_NoCrossPdfWrite ==
  \A w \in BagToSet(inflight) :
    \A i \in 1..Len(w.content) : w.content[i] \notin ForeignTok(w.file)

\* C4: after N >= 1 edits in a row, each arriving while the timeout of the one
\* before is armed, no write has started while the timeout is armed, and once
\* it has fired exactly one write has started, holding the notes as of the
\* last edit.
C4_DebounceCoalesces ==
  burst > 0 =>
    \/ timers = 1 /\ sinceEdit = 0
    \/ /\ timers = 0 /\ sinceEdit = 1
       /\ written = FullContent(currentPdfFile, currentPdf, pageNotes)

\* Two edits in a row were coalesced into one write.
C4_Witness == burst >= 2 /\ timers = 0 /\ sinceEdit = 1

\* C5: at most one write of a notes file is in flight at any time.
C5_OneWriteInFlight ==
  (closePc = "open" /\ loadPc = "idle") =>
  \A w \in BagToSet(inflight) :
    /\ CopiesIn(w, inflight) = 1
    /\ \A v \in BagToSet(inflight) : v.file = w.file => v = w

\* C6: once the edits have stopped and every timeout and write has completed,
\* the notes file holds the notes as of the last edit.
C6_LastWriteWins ==
  (burst > 0 /\ timers = 0 /\ BagToSet(inflight) = {}) =>
    files[currentNotesFile] = FullContent(currentPdfFile, currentPdf, pageNotes)

\* ------------------------------------------------ claims on page sections
\* C7: an upsert of page p leaves the body extracted for every other page q
\* that has a section as it was, whatever the body.
C7_SectionIsolation ==
  [][\A q \in Pages :
       (q # lastPage' /\ notesDoc # Missing /\ HasMarker(variant, notesDoc, q)) =>
         Extract(variant, notesDoc', q) = Extract(variant, notesDoc, q)]_vars

\* C8: extracting page p returns the body upserted last for p (read up to the
\* trimming of surrounding white space that the extraction always applies).
C8_RoundTrip ==
  \A p \in Pages :
    lastBody[p] # Undefined =>
      Extract(variant, notesDoc, p) \in {lastBody[p], Trim(lastBody[p])}

\* C9: upserting the same body for the same page a second time leaves the
\* document as the first upsert made it.
C9_Idempotent ==
  [][(lastPage # 0 /\ lastPage' = lastPage
        /\ lastBody'[lastPage] = lastBody[lastPage]) => notesDoc' = notesDoc]_vars

\* C10: after an upsert of page p with the empty body the document has a
\* marker for p, extracting p returns the empty text, and that differs from
\* what extracting a page with no marker returns.
C10_EmptyBody ==
  (lastPage # 0 /\ lastBody[lastPage] = <<>>) =>
    /\ HasMarker(variant, notesDoc, lastPage)
    /\ Extract(variant, notesDoc, lastPage) = <<>>
    /\ \A q \in Pages :
         ~HasMarker(variant, notesDoc, q) => Extract(variant, notesDoc, q) # <<>>

\* A line that is a page marker by the grammar of the specification:
\* "## Page ", one page number, end of line.
IsMarkerLine(line) ==
  Len(line) = 3 /\ line[1] = HP /\ line[2] = SP /\ IsDigit(line[3])

\* The indices of the marker lines among the lines.
MarkerLines(lines) == {i \in 1..Len(lines) : IsMarkerLine(lines[i])}

\* The page numbers of the marker lines of a document, in order.
RECURSIVE MarkersOf(_)
MarkersOf(lines) ==
  IF lines = <<>> THEN <<>>
  ELSE (IF IsMarkerLine(Head(lines)) THEN <<DigitVal(Head(lines)[3])>> ELSE <<>>)
         \o MarkersOf(Tail(lines))

\* The first marker line of the page, 0 when there is none.
MarkerOf(lines, page) ==
  LET hit == {i \in MarkerLines(lines) : lines[i] = PageHeaderTok(page)}
  IN IF hit = {} THEN 0 ELSE SetMin(hit)

\* The first marker line after line i, or one past the last line.
NextMarker(lines, i) ==
  LET hit == {j \in MarkerLines(lines) : j > i}
  IN IF hit = {} THEN Len(lines) + 1 ELSE SetMin(hit)

\* Whether the body holds a "## Page" or a "$" pattern of its own.
HasPageText(body) == \E i \in 1..Len(body) : body[i] \in {HP, "$&", "$$"}

\* Every "## Page" of the document is in a marker line of its own, and no two
\* marker lines name the same page.
WellFormed(d) ==
  LET ms == MarkersOf(SplitLines(d))
  IN /\ Cardinality({i \in 1..Len(d) : d[i] = HP}) = Len(ms)
     /\ \A i, j \in 1..Len(ms) : ms[i] = ms[j] => i = j

\* The upsert found a marker line of its page in a well-formed document and
\* the body is plain.
IsReplace ==
  /\ notesDoc # Missing /\ upserts' = upserts + 1
  /\ WellFormed(notesDoc)
  /\ MarkerOf(SplitLines(notesDoc), lastPage') # 0
  /\ ~HasPageText(lastBody'[lastPage'])

\* C11: an upsert of a page that has a marker line keeps the marker line, the
\* sequence of page markers, and every line before the marker and from the
\* next marker on (here for bodies that hold no "## Page" and no "$").
C11_ReplaceInPlace ==
  [][IsReplace =>
       LET old == SplitLines(notesDoc)
           new == SplitLines(notesDoc')
           i == MarkerOf(old, lastPage')
           j == MarkerOf(new, lastPage')
       IN /\ j # 0
          /\ MarkersOf(new) = MarkersOf(old)
          /\ SubSeq(new, 1, j) = SubSeq(old, 1, i)
          /\ SubSeq(new, NextMarker(new, j), Len(new))
               = SubSeq(old, NextMarker(old, i), Len(old))]_vars

\* The last line that is not blank, 0 when every line is blank.
LastTextLine(lines) ==
  LET hit == {i \in 1..Len(lines) : Trim(lines[i]) # <<>>}
  IN IF hit = {} THEN 0 ELSE CHOOSE i \in hit : \A j \in hit : j <= i

\* The upsert or section creation found no marker line of its page.
IsAppend ==
  /\ notesDoc # Missing /\ upserts' = upserts + 1
  /\ MarkerOf(SplitLines(notesDoc), lastPage') = 0

\* C12: an upsert or section creation for a page that has no marker line puts
\* the marker line after all the text that was there, keeps that text, and
\* leaves exactly one blank line between the two.
C12_AppendAfterBlankLine ==
  [][IsAppend =>
       LET old == SplitLines(notesDoc)
           new == SplitLines(notesDoc')
           k == LastTextLine(old)
       IN /\ MarkerOf(new, lastPage') = k + 2
          /\ SubSeq(new, 1, k) = SubSeq(old, 1, k)
          /\ new[k + 1] = <<>>]_vars

\* The lines without the blank lines at their start and at their end.
TrimBlankLines(lines) ==
  LET hit == {i \in 1..Len(lines) : Trim(lines[i]) # <<>>}
  IN IF hit = {} THEN <<>>
     ELSE SubSeq(lines, SetMin(hit), LastTextLine(lines))

\* The section of the page by the specification: the lines after its marker
\* line up to the next marker line, without leading and trailing blank lines.
SectionOf(lines, page) ==
  LET i == MarkerOf(lines, page)
  IN JoinLines(TrimBlankLines(SubSeq(lines, i + 1, NextMarker(lines, i) - 1)))

\* What the variant returns for a page it finds no marker of.
Absent(v) == IF v = "readme" THEN <<>> ELSE Null

\* C13: in a well-formed document, extracting a page that has a marker line
\* returns the lines between it and the next marker line (compared up to
\* surrounding white space), and extracting a page that has none returns the
\* absent result.
C13_ExtractSection ==
  (notesDoc # Missing /\ WellFormed(notesDoc)) =>
    \A p \in Pages :
      LET lines == SplitLines(notesDoc)
      IN Extract(variant, notesDoc, p) =
           IF MarkerOf(lines, p) = 0 THEN Absent(variant)
           ELSE Trim(SectionOf(lines, p))

\* C15: a page is found to have a marker exactly when some line of the
\* document is "## Page ", its number and nothing else.
C15_MarkerGrammar ==
  notesDoc # Missing =>
    \A p \in Pages :
      HasMarker(variant, notesDoc, p) <=> MarkerOf(SplitLines(notesDoc), p) # 0

\* C14: no two marker lines of the notes document name the same page.
C14_MarkersUnique ==
  notesDoc # Missing =>
    LET ms == MarkersOf(SplitLines(notesDoc))
    IN \A i, j \in 1..Len(ms) : ms[i] = ms[j] => i = j

\* -------------------------------------- claims on reading the notes file
\* The marker lines of the page.
MarkerLinesOf(lines, page) ==
  {i \in MarkerLines(lines) : lines[i] = PageHeaderTok(page)}

\* C16: when the notes file holds several marker lines of one page, parsing it
\* gives that page the section of the first of them.
C16_FirstMarkerWins ==
  \A p \in Pages :
    LET lines == SplitLines(notesDoc)
    IN Cardinality(MarkerLinesOf(lines, p)) > 1 =>
         parseExistingNotes(notesDoc)[p] = Trim(SectionOf(lines, p))


\* The snapshot last written for f, read back into a fresh view.
SnapshotOf(f) ==
  IF variant = "readme" THEN loadHighlights(hlStore[f])
  ELSE loadHighlightsFromNotes(hlStore[f], <<>>)

\* C17: a page with no highlights left has no entry: neither the highlights
\* mapping nor a snapshot written from it holds a page with an empty list.
C17_NoEmptyPages ==
  /\ \A i \in 1..Len(highlights) : highlights[i].recs # <<>>
  /\ \A f \in Pdfs :
       hlStore[f] # Missing =>
         \A i \in 1..Len(SnapshotOf(f)) : SnapshotOf(f)[i].recs # <<>>


\* A step that saves the highlights: the file of the loaded PDF changes.
IsHighlightSave == hlPath' = hlPath /\ hlStore' # hlStore

\* The notes document around the block of the highlights.
OutsideBlock(content) ==
  LET i == IndexFrom(content, highlightMarker, 1)
      j == IF i = 0 THEN 0 ELSE IndexFrom(content, endMarker, i + 1)
  IN IF i = 0 THEN content
     ELSE IF j = 0 THEN SubSeq(content, 1, i - 1)
     ELSE SubSeq(content, 1, i - 1) \o SubSeq(content, j + 1, Len(content))

\* C18: what a save of the highlights writes loads again as the mapping that
\* was saved, same pages, same records in the same order, same field values;
\* in the notes document the text around the block stays as it was.
C18_HighlightRoundTrip ==
  [][IsHighlightSave =>
       /\ (IF variant = "readme"
           THEN loadHighlights(hlStore'[hlPath'])
           ELSE loadHighlightsFromNotes(hlStore'[hlPath'], <<>>)) = highlights'
       /\ variant = "publishing" =>
            Trim(OutsideBlock(hlStore'[hlPath']))
              = Trim(OutsideBlock(hlStore[hlPath]))]_vars


\* Files of highlights that are absent or hold no highlight data: no file,
\* text that is no JSON, JSON that is no list of pairs.
MalformedJsonFiles ==
  {Missing, <<"oops">>, <<"[", "[", "1", ",">>, <<"{", "}">>, <<"[", "1", "]">>}

\* Notes files that are absent or hold no well-formed block: no file, no
\* marker at all, a start marker alone, a block with nothing in it, a block
\* whose text is no JSON.
MalformedNotesFiles ==
  {Missing,
   PublishingInitialContent,
   PublishingInitialContent \o <<highlightMarker, NL, "[">>,
   PublishingInitialContent \o <<highlightMarker, NL, NL, endMarker>>,
   PublishingInitialContent \o <<highlightMarker, NL, "oops", NL, endMarker>>}

\* C19: loading the highlights from an absent or malformed file leaves the
\* highlights mapping empty, whatever it held before.
C19_MalformedLoadsEmpty ==
  IF variant = "readme"
  THEN \A file \in MalformedJsonFiles : loadHighlights(file) = <<>>
  ELSE \A file \in MalformedNotesFiles :
         loadHighlightsFromNotes(file, highlights) = <<>>


\* The ids of the highlights created on pages of f.
IdsOf(f) == {HighlightIds[f][n] : n \in 1..MaxHighlights}

OtherPdf(f) == IF f = "A" THEN "B" ELSE "A"

\* C20: one collection of highlights per PDF.  Once a PDF is loaded and on
\* display the highlights mapping holds no highlight created on the other
\* PDF, and no file of highlights written for a PDF holds a record created on
\* the other one.
C20_OneCollectionPerPdf ==
  /\ (hlLoad = "idle" /\ hlPath # None /\ hlShown = hlPath) =>
        \A i \in 1..Len(highlights) : \A k \in 1..Len(highlights[i].recs) :
           highlights[i].recs[k].id \notin IdsOf(OtherPdf(hlPath))
  /\ \A f \in Pdfs :
        hlStore[f] # Missing =>
          \A i \in 1..Len(hlStore[f]) : hlStore[f][i] \notin IdsOf(OtherPdf(f))


\* C21: the x stored for a highlight is the page-space position of the
\* selection (the on-screen value over the scale it was made at), so one
\* selection stores one value at every scale, and the highlight is drawn at
\* the stored value times the scale in effect.
C21_PageSpaceCoordinates ==
  \A i \in 1..Len(rects) :
    /\ rects[i].x = rects[i].sel
    /\ \A j \in 1..Len(rects) :
         rects[i].sel = rects[j].sel => rects[i].x = rects[j].x
    /\ DrawnLeft(rects[i].x, currentScale) = (rects[i].x * currentScale) \div 100


\* C22: every rejected write of a scheduled save is reported to the user.
C22_FailedSaveReported == notices >= failedSaves


\* C23: a rejected write of the save made at close is surfaced to the caller
\* of the close: the promise of onClose is rejected.
C23_CloseFailureSurfaced == failedCloses > 0 => closeRejected


\* C24: a close while the scheduler is idle (no timer armed, no write of the
\* notes file in flight) starts no write and leaves the notes files alone.
C24_IdleCloseNoWrite ==
  [][(closePc = "open" /\ closePc' # "open" /\ timers = 0
        /\ inflight = EmptyBag)
       => (inflight' = EmptyBag /\ files' = files)]_vars


\* C25: a page number below 1 is rejected before the notes file is touched:
\* no save for such a page is carried out, and the document never holds a
\* '## Page 0' header.
C25_InvalidPageRejected ==
  /\ upserts > 0 => lastPage >= 1
  /\ notesDoc # Missing =>
       \A i \in 1..(Len(notesDoc) - 2) :
          ~(notesDoc[i] = HP /\ notesDoc[i + 1] = SP /\ notesDoc[i + 2] = "0")


\* C26: once onClose has returned, with the view cleared and no load under
\* way, no write of the notes file is started any more: a debounce timer
\* armed before the close does not fire a save.
C26_NoWriteAfterClose ==
  [][(closePc = "closed" /\ currentPdf = None /\ loadPc = "idle") =>
       \A w \in BagToSet(inflight') : CopiesIn(w, inflight') <= CopiesIn(w, inflight)]_vars


\* Every page was saved at most once.
SavedPages == {p \in Pages : lastBody[p] # Undefined}

\* C27: no lost update between saves of different pages: when every save has
\* written, the notes file holds the body of each page that was saved.
C27_NoLostUpdate ==
  (pendingSaves = {} /\ upserts = Cardinality(SavedPages)) =>
     \A p \in SavedPages : Extract(variant, notesDoc, p) = lastBody[p]


\* No renderPage call is under way.
RendersDone ==
  /\ \A p \in Pages : renders[p] = 0
  /\ loadPc \notin {"open", "render"}

\* C28: once every render has completed, currentPage is the page asked for
\* last and lies within the pages of the PDF that is loaded.
C28_PageAfterRenders ==
  (RendersDone /\ currentPdf # None) =>
     /\ currentPage = requested
     /\ 1 <= currentPage /\ currentPage <= NumPages(currentPdf)


\* C29: parsing what saveAllNotesToFile wrote gives every page the note it
\* had when the file was written: the body just left in the editor for its
\* page, the note parsed before for the others; a page without a note stays
\* without one.
C29_SaveParseInverse ==
  [][upserts' # upserts =>
       \A p \in Pages :
          OrEmpty(parseExistingNotes(notesDoc')[p])
            = OrEmpty(IF p = lastPage' THEN lastBody'[p]
                      ELSE parseExistingNotes(notesDoc)[p])]_vars


\* C30: the PDF or the notes are shown in every state of the settings, and
\* in every settings value handed to saveSettings.
C30_OneSectionVisible ==
  /\ showPdf \/ showNotes
  /\ savedSettings[1] \/ savedSettings[2]

====
